---------------------------- MODULE Spec2Model ----------------------------
(***************************************************************************)
(* Model of scripts/ingest-pdfs.mjs (src/unnamed/part_002): the chunker,   *)
(* the embedding provider gateway (embedWithRetries, embedBatch) and the   *)
(* ingestion run (main).                                                   *)
(*                                                                         *)
(* ChunkSpec runs chunkText's loop on texts, sizes and overlaps drawn from *)
(* bounded sets.  Spec runs main: one step per await of the script.        *)
(* RunsSpec runs it repeatedly, DiskSpec on every condition of the data    *)
(* directory, BackoffSpec with eight attempts per provider, and RaceSpec   *)
(* as two processes at once.                                               *)
(***************************************************************************)
EXTENDS Integers, Sequences, FiniteSets, TLC

\* ------------------------------------------------------------------------
\* Bounds of the model
\* ------------------------------------------------------------------------

\* longest text handed to chunkText in ChunkSpec
MaxLen == 5
\* runs of the script in one behaviour of RunsSpec
MaxRuns == 3
\* largest chunk size and overlap tried in ChunkSpec
MaxSize == 4

Alphabet == {"a", "b"}

Texts == UNION {[1..n -> Alphabet] : n \in 0..MaxLen}

\* chunkText never pushes more than one chunk per character when
\* overlap < size; the loop of a call with overlap >= size is cut here
MaxOut == MaxLen + 2

Min(a, b) == IF a < b THEN a ELSE b
Max(a, b) == IF a > b THEN a ELSE b

\* ceil(a / b) for a >= 0, b > 0
CeilDiv(a, b) == (a + b - 1) \div b

\* ------------------------------------------------------------------------
\* State
\* ------------------------------------------------------------------------

VARIABLES
    text,       \* chunkText: the argument text
    size,       \* chunkText: the argument size
    overlap,    \* chunkText: the argument overlap
    ci,         \* chunkText: the local i
    out,        \* chunkText: the local out
    cpc         \* chunkText: "loop" inside the while, "returned" after return

VARIABLES
    env,        \* process.env: EMB_PROVIDER, EMB_MODEL and the two API keys
    pdfDir,     \* knowledge/pdfs: relative path -> the PDF stored there
    cacheFile,  \* data/embedding-cache.json on disk
    indexFile,  \* data/knowledge.json on disk
    pc,         \* main: the await the run is at
    runs,       \* number of runs of the script started so far
    runLimit,   \* number of runs of the script the behaviour may start
    pdfPaths,   \* main: pdfPaths
    fileIdx,    \* main: position of the for-of loop in pdfPaths
    cache,      \* main: cache
    index,      \* main: index
    idCounter,  \* main: idCounter
    pieces,     \* main: pieces of the file being processed
    bi,         \* main: i of the batch loop
    embeddings, \* main: embeddings of the file being processed
    texts,      \* embedBatch: the argument texts
    tryOrder,   \* embedBatch: tryOrder
    provIdx,    \* embedBatch: position of the for-of loop in tryOrder
    lastErr,    \* embedBatch: lastErr
    attempt,    \* embedWithRetries: attempt
    delay,      \* embedWithRetries: delay
    waited,     \* embedWithRetries: the last setTimeout's milliseconds (0: none yet)
    ret,        \* how the last embedBatch call ended, and with what
    raised,     \* the error that ended the run (main().catch)
    callLog,    \* history: the provider calls of the embedBatch call, in order
    batchCalls, \* history: embedBatch calls made in this run
    writes,     \* history: the files this run wrote, in order
    fileCalls,  \* history: embedBatch calls made for the file being processed
    startDisk,  \* history: the cache file and the index file as the run found them
    lastOk,     \* history: the last run of this behaviour that completed
    self,       \* the process of the script that is running: 1 or 2
    other       \* the locals of the process of the script that is not running

chunkVars == <<text, size, overlap, ci, out, cpc>>

diskVars == <<env, pdfDir, cacheFile, indexFile>>

mainVars == <<pc, runs, runLimit, pdfPaths, fileIdx, cache, index, idCounter, pieces, bi, embeddings>>

gatewayVars == <<texts, tryOrder, provIdx, lastErr, attempt, delay, waited, ret, raised>>

\* the history that no step of a run in progress changes before its last write
recordVars == <<startDisk, lastOk>>

historyVars == <<callLog, batchCalls, writes, fileCalls, recordVars>>

\* the processes of the script
procVars == <<self, other>>

runVars == <<diskVars, mainVars, gatewayVars, historyVars, procVars>>

vars == <<chunkVars, runVars>>

\* ------------------------------------------------------------------------
\* chunkText (part_002:42-51)
\* ------------------------------------------------------------------------

\* String.prototype.slice(from, to): a negative index counts from the end,
\* both are clamped to 0..length, and from >= to gives the empty string
SliceIndex(len, k) == IF k < 0 THEN Max(len + k, 0) ELSE Min(k, len)

\* text.slice(i, size): the second argument taken as a length
SliceToLength(s, from, to) ==
    LET f == SliceIndex(Len(s), from)
        t == SliceIndex(Len(s), to - from)
    IN  IF f < t THEN SubSeq(s, f + 1, t) ELSE <<>>

Slice(s, from, to) ==
    LET f == SliceIndex(Len(s), from)
        t == SliceIndex(Len(s), to)
    IN  IF f < t THEN SubSeq(s, f + 1, t) ELSE <<>>

\* while (i + 1 < text.length)
ChunkContinueNoLast(t, i) == i + 1 < Len(t)

\* while (i < text.length)
ChunkContinue(t, i) == i < Len(t)

\* i += size
ChunkAdvanceNoOverlap(i, sz, ov) == i + sz

\* i += size - overlap
ChunkAdvance(i, sz, ov) == i + sz - ov

\* one iteration of the while loop
ChunkStep ==
    /\ cpc = "loop"
    /\ ChunkContinue(text, ci)
    /\ Len(out) < MaxOut
    /\ out' = Append(out, Slice(text, ci, ci + size))
    /\ ci' = ChunkAdvance(ci, size, overlap)
    /\ UNCHANGED <<text, size, overlap, cpc>>
    /\ UNCHANGED runVars

\* the loop condition is false: return out
ChunkReturn ==
    /\ cpc = "loop"
    /\ ~ChunkContinue(text, ci)
    /\ cpc' = "returned"
    /\ UNCHANGED <<text, size, overlap, ci, out>>
    /\ UNCHANGED runVars

ChunkNext == ChunkStep \/ ChunkReturn

\* chunkText as a function: the loop run to its end (it ends when
\* overlap < size)
RECURSIVE ChunkLoop(_, _, _, _, _)
ChunkLoop(t, sz, ov, i, acc) ==
    IF ChunkContinue(t, i)
    THEN ChunkLoop(t, sz, ov, ChunkAdvance(i, sz, ov), Append(acc, Slice(t, i, i + sz)))
    ELSE acc

ChunkText(t, sz, ov) == ChunkLoop(t, sz, ov, 0, <<>>)

\* ------------------------------------------------------------------------
\* Configuration (part_002:16-33)
\* ------------------------------------------------------------------------

DEFAULT_OPENAI_MODEL == "text-embedding-3-small"

DEFAULT_OPENROUTER_MODEL == "jinaai/jina-embeddings-v3"

\* the runs of the model are made with CHUNK_SIZE=3, CHUNK_OVERLAP=1 and
\* EMB_BATCH=2 in the environment
CHUNK_SIZE == 3

CHUNK_OVERLAP == 1

BATCH_SIZE == 2

\* values of process.env.EMB_PROVIDER, process.env.EMB_MODEL and
\* process.env.EMB_MAX_RETRIES; "" is unset
EnvProviders == {"", "openai", "openrouter"}

EnvModels == {"", "custom-embedding-model"}

EnvRetries == {"", "2", "8"}

Envs ==
    [EMB_PROVIDER : EnvProviders, EMB_MODEL : EnvModels, EMB_MAX_RETRIES : EnvRetries,
     OPENAI_API_KEY : BOOLEAN, OPENROUTER_API_KEY : BOOLEAN]

\* Number(s) of the numerals the environment holds
NumberOf(s) == IF s = "2" THEN 2 ELSE IF s = "8" THEN 8 ELSE 0

\* part_002:33
MAX_RETRIES == IF env.EMB_MAX_RETRIES # "" THEN NumberOf(env.EMB_MAX_RETRIES) ELSE 6

\* part_002:22-24 without process.env.EMB_PROVIDER
ProviderByKeysOnly ==
    IF env.OPENAI_API_KEY THEN "openai"
    ELSE IF env.OPENROUTER_API_KEY THEN "openrouter"
    ELSE "openai"

\* part_002:22-24
EMB_PROVIDER ==
    IF env.EMB_PROVIDER # "" THEN env.EMB_PROVIDER
    ELSE IF env.OPENAI_API_KEY THEN "openai"
    ELSE IF env.OPENROUTER_API_KEY THEN "openrouter"
    ELSE "openai"

\* part_002:28
EMB_MODEL ==
    IF env.EMB_MODEL # "" THEN env.EMB_MODEL
    ELSE IF EMB_PROVIDER = "openai" THEN DEFAULT_OPENAI_MODEL
    ELSE DEFAULT_OPENROUTER_MODEL

\* ------------------------------------------------------------------------
\* Files (part_002:16-19, 36-40, 55-65, 77-90)
\* ------------------------------------------------------------------------

\* paths relative to process.cwd(), as path.relative gives them
Paths == {"knowledge/pdfs/a.pdf", "knowledge/pdfs/b.pdf"}

\* the files a path may hold: three PDF documents (the blank one has no text
\* but white space) and a file that is no parseable PDF
Docs == {"report", "memo", "blank", "broken"}

Absent == "absent"

\* sha256(buf): a digest that tells any two documents apart
Sha256(doc) == <<"sha256", doc>>

\* extractPdfText(buf): the text pdf.js finds in the document, the items of a
\* page joined by " "
ExtractPdfText(doc) ==
    IF doc = "report" THEN <<" ", "a", "b", "\r", "b", "a", "NUL", "b", " ">>
    ELSE IF doc = "memo" THEN <<"b", "\r", "a">>
    ELSE <<" ">>

\* pdfjsLib.getDocument(...).promise rejects: extractPdfText throws
ExtractThrows(doc) == doc = "broken"

IsSpace(c) == c \in {" ", "\n", "\t"}

RECURSIVE TrimStart(_)
TrimStart(t) ==
    IF t # <<>> /\ IsSpace(Head(t)) THEN TrimStart(Tail(t)) ELSE t

RECURSIVE TrimEnd(_)
TrimEnd(t) ==
    IF t # <<>> /\ IsSpace(t[Len(t)]) THEN TrimEnd(SubSeq(t, 1, Len(t) - 1)) ELSE t

IsCleanChar(c) == c \notin {"\r", "NUL"}

\* text.replace(/\r/g, "").replace(/\u0000/g, "").trim()
CleanText(t) == TrimEnd(TrimStart(SelectSeq(t, IsCleanChar)))

EmptyMap == [x \in {} |-> x]

\* obj = { [key]: value }: the other keys are lost
PutOnly(f, key, value) == [x \in {key} |-> value]

\* obj[key] = value
Put(f, key, value) == [x \in DOMAIN f \cup {key} |-> IF x = key THEN value ELSE f[x]]

\* the JSON values a cache file may parse to: an object with a files map, an
\* object without one ({}), and null
CacheObject(files) == [kind |-> "object", files |-> files]

ObjectWithoutFiles == [kind |-> "no-files", files |-> EmptyMap]

NullValue == [kind |-> "null", files |-> EmptyMap]

\* { files: {} }
EmptyCache == CacheObject(EmptyMap)

\* a file that does not exist, and one whose text is not JSON
MissingFile == [state |-> "missing", data |-> EmptyCache]

CorruptFile == [state |-> "corrupt", data |-> EmptyCache]

\* a file holding JSON.stringify(data)
StoredFile(data) == [state |-> "ok", data |-> data]

\* loadCache with the catch clause returning what was parsed so far
LoadCacheNoCatch(file) == file.data

\* loadCache: JSON.parse of the file, or { files: {} } when readFile or
\* JSON.parse throws
LoadCache(file) ==
    IF file.state = "ok" THEN file.data ELSE EmptyCache

\* cache.files[rel] throws a TypeError: cache is null, or cache.files is
\* undefined
LookupThrows(c) == c.kind # "object"

\* the orders in which fast-glob may list a set of files
Orders(S) ==
    {s \in [1..Cardinality(S) -> S] : \A i, j \in 1..Cardinality(S) : i # j => s[i] # s[j]}

\* ------------------------------------------------------------------------
\* Embedding providers (part_002:93-134)
\* ------------------------------------------------------------------------

\* makeOpenAIClient() and makeOpenRouterClient() return a client, not null
HasOpenAIClient == env.OPENAI_API_KEY

HasOpenRouterClient == env.OPENROUTER_API_KEY

Provider(name, model) == [name |-> name, model |-> model]

\* tryOrder with the other provider given EMB_MODEL too
TryOrderSameModel ==
    IF EMB_PROVIDER = "openai"
    THEN (IF HasOpenAIClient THEN <<Provider("openai", EMB_MODEL)>> ELSE <<>>)
         \o (IF HasOpenRouterClient THEN <<Provider("openrouter", EMB_MODEL)>> ELSE <<>>)
    ELSE (IF HasOpenRouterClient THEN <<Provider("openrouter", EMB_MODEL)>> ELSE <<>>)
         \o (IF HasOpenAIClient THEN <<Provider("openai", EMB_MODEL)>> ELSE <<>>)

\* tryOrder with the selected provider pushed whether or not its key is set
TryOrderNoKeyCheck ==
    IF EMB_PROVIDER = "openai"
    THEN <<Provider("openai", EMB_MODEL)>>
         \o (IF HasOpenRouterClient THEN <<Provider("openrouter", DEFAULT_OPENROUTER_MODEL)>> ELSE <<>>)
    ELSE <<Provider("openrouter", EMB_MODEL)>>
         \o (IF HasOpenAIClient THEN <<Provider("openai", DEFAULT_OPENAI_MODEL)>> ELSE <<>>)

\* embedBatch, part_002:138-149
TryOrder ==
    IF EMB_PROVIDER = "openai"
    THEN (IF HasOpenAIClient THEN <<Provider("openai", EMB_MODEL)>> ELSE <<>>)
         \o (IF HasOpenRouterClient THEN <<Provider("openrouter", DEFAULT_OPENROUTER_MODEL)>> ELSE <<>>)
    ELSE (IF HasOpenRouterClient THEN <<Provider("openrouter", EMB_MODEL)>> ELSE <<>>)
         \o (IF HasOpenAIClient THEN <<Provider("openai", DEFAULT_OPENAI_MODEL)>> ELSE <<>>)

\* the length of the vectors a model returns: 1536 for text-embedding-3-small
\* (part_002:26), 1024 for jinaai/jina-embeddings-v3, 3072 for the custom model
ModelDimension(model) ==
    IF model = DEFAULT_OPENAI_MODEL THEN 1536
    ELSE IF model = DEFAULT_OPENROUTER_MODEL THEN 1024
    ELSE 3072

\* the vector the provider's model computes for one input text
EmbeddingOf(name, model, t) ==
    [by |-> name, model |-> model, of |-> t, length |-> ModelDimension(model)]

\* embeddings[i] past the end of the array
Undefined == [by |-> "undefined", model |-> "", of |-> <<>>, length |-> 0]

\* res.data of a successful client.embeddings.create({ model, input }): one
\* embedding object per input, in input order
ResponseData(p, inputs) ==
    [i \in 1..Len(inputs) |->
        [index |-> i - 1, embedding |-> EmbeddingOf(p.name, p.model, inputs[i])]]

\* res.data.map((d) => d.embedding) with the last entry lost
VectorsDropLast(data) == [i \in 1..(Len(data) - 1) |-> data[i].embedding]

\* res.data.map((d) => d.embedding)
Vectors(data) == [i \in 1..Len(data) |-> data[i].embedding]

\* the failures a call of client.embeddings.create may throw: status is
\* err.status (0: none), code is err.code ("": none)
ProviderFailures ==
    {[status |-> 429, code |-> ""],
     [status |-> 500, code |-> ""],
     [status |-> 599, code |-> ""],
     [status |-> 0, code |-> "insufficient_quota"],
     [status |-> 401, code |-> "invalid_api_key"],
     [status |-> 499, code |-> ""],
     [status |-> 600, code |-> ""],
     [status |-> 0, code |-> ""]}

NoErr == [kind |-> "none", status |-> 0, code |-> "", by |-> "", seq |-> 0]

\* new Error("No embedding provider configured. ...")
NoProviderErr == [kind |-> "no-provider", status |-> 0, code |-> "", by |-> "", seq |-> 0]

\* the error extractPdfText throws on a file that is no PDF
ExtractionErr == [kind |-> "extraction", status |-> 0, code |-> "", by |-> "", seq |-> 0]

\* TypeError: Cannot read properties of null / undefined
TypeErr == [kind |-> "type-error", status |-> 0, code |-> "", by |-> "", seq |-> 0]

\* the error object of failure f, thrown by provider `name` at call `seq` of
\* the embedBatch call
ProviderErr(f, name, seq) ==
    [kind |-> "provider", status |-> f.status, code |-> f.code, by |-> name, seq |-> seq]

\* retriable with every status from 500 up taken as a server error
RetriableNoUpperBound(f) ==
    f.status = 429 \/ f.status >= 500 \/ f.code = "insufficient_quota"

\* part_002:118-119
Retriable(f) ==
    f.status = 429 \/ (f.status >= 500 /\ f.status < 600) \/ f.code = "insufficient_quota"

\* the throw of the catch block taken one attempt early
ThrowsNowOffByOne(f, att) == ~Retriable(f) \/ att + 1 = MAX_RETRIES

\* part_002:121: !retriable || attempt === MAX_RETRIES
ThrowsNow(f, att) == ~Retriable(f) \/ att = MAX_RETRIES

\* delay = delay * 2: the doubling without its cap
NextDelayUncapped(d) == d * 2

\* delay = Math.min(delay * 2, 20000)
NextDelay(d) == Min(d * 2, 20000)

\* Math.floor(Math.random() * 250): the least and the greatest value
Jitters == {0, 249}

NoRet == [kind |-> "none", value |-> <<>>, error |-> NoErr]

Returned(v) == [kind |-> "vectors", value |-> v, error |-> NoErr]

Thrown(e) == [kind |-> "thrown", value |-> <<>>, error |-> e]

\* history: what the failure was, in the spec's taxonomy (rate-limit status,
\* 5xx status or quota-exceeded code: transient; anything else: fatal)
Outcome(f) ==
    IF f.status = 429 \/ f.status \in 500..599 \/ f.code = "insufficient_quota"
    THEN "transient" ELSE "fatal"

LogEntry(p, att, outcome) ==
    [name |-> p.name, model |-> p.model, attempt |-> att, outcome |-> outcome]

\* ------------------------------------------------------------------------
\* main (part_002:167-221), one action per await
\* ------------------------------------------------------------------------

\* no embedBatch call in progress
GatewayIdle ==
    /\ texts = <<>>
    /\ tryOrder = <<>>
    /\ provIdx = 0
    /\ lastErr = NoErr
    /\ attempt = 0
    /\ delay = 0
    /\ waited = 0
    /\ ret = NoRet

\* no run of the behaviour has completed
NoRunDone == [done |-> FALSE, dir |-> [p \in Paths |-> Absent], paths |-> <<>>]

\* the two files of the data directory
Disk == [cache |-> cacheFile, index |-> indexFile]

\* no second process of the script was spawned
NoProcess == [pc |-> "none"]

\* the locals of a process of the script that has not started its run, on
\* the data directory it would find
IdleLocals(disk) ==
    [pc |-> "idle", pdfPaths |-> <<>>, fileIdx |-> 0, cache |-> EmptyCache,
     index |-> [model |-> "", dimension |-> 0, chunks |-> <<>>], idCounter |-> 0,
     pieces |-> <<>>, bi |-> 0, embeddings |-> <<>>, texts |-> <<>>, tryOrder |-> <<>>,
     provIdx |-> 0, lastErr |-> NoErr, attempt |-> 0, delay |-> 0, waited |-> 0,
     ret |-> NoRet, raised |-> NoErr, callLog |-> <<>>, batchCalls |-> 0,
     writes |-> <<>>, fileCalls |-> 0, startDisk |-> disk]

\* the locals of the process that is running
Locals ==
    [pc |-> pc, pdfPaths |-> pdfPaths, fileIdx |-> fileIdx, cache |-> cache,
     index |-> index, idCounter |-> idCounter, pieces |-> pieces, bi |-> bi,
     embeddings |-> embeddings, texts |-> texts, tryOrder |-> tryOrder,
     provIdx |-> provIdx, lastErr |-> lastErr, attempt |-> attempt, delay |-> delay,
     waited |-> waited, ret |-> ret, raised |-> raised, callLog |-> callLog,
     batchCalls |-> batchCalls, writes |-> writes, fileCalls |-> fileCalls,
     startDisk |-> startDisk]

RunInit ==
    /\ env \in Envs
    /\ pdfDir \in [Paths -> Docs \cup {Absent}]
    /\ pc = "idle"
    /\ runs = 0
    /\ pdfPaths = <<>>
    /\ fileIdx = 0
    /\ cache = EmptyCache
    /\ index = [model |-> "", dimension |-> 0, chunks |-> <<>>]
    /\ idCounter = 0
    /\ pieces = <<>>
    /\ bi = 0
    /\ embeddings = <<>>
    /\ GatewayIdle
    /\ raised = NoErr
    /\ callLog = <<>>
    /\ batchCalls = 0
    /\ writes = <<>>
    /\ fileCalls = 0
    /\ lastOk = NoRunDone
    /\ self = 1

\* the script is started: ensureDirs, the glob, loadCache and the locals of
\* main up to the for loop (part_002:168-178)
StartRun ==
    /\ pc \in {"idle", "done", "failed"}
    /\ runs < runLimit
    /\ runs' = runs + 1
    /\ UNCHANGED runLimit
    /\ \E order \in Orders({p \in Paths : pdfDir[p] # Absent}) :
           /\ pdfPaths' = order
           /\ pc' = IF order = <<>> THEN "writeIndex" ELSE "file"
    /\ cache' = LoadCache(cacheFile)
    /\ index' = [model |-> EMB_MODEL, dimension |-> 1536, chunks |-> <<>>]
    /\ idCounter' = 1
    /\ fileIdx' = 1
    /\ pieces' = <<>>
    /\ bi' = 0
    /\ embeddings' = <<>>
    /\ texts' = <<>>
    /\ tryOrder' = <<>>
    /\ provIdx' = 0
    /\ lastErr' = NoErr
    /\ attempt' = 0
    /\ delay' = 0
    /\ waited' = 0
    /\ ret' = NoRet
    /\ raised' = NoErr
    /\ callLog' = <<>>
    /\ batchCalls' = 0
    /\ writes' = <<>>
    /\ fileCalls' = 0
    /\ startDisk' = Disk
    /\ UNCHANGED <<chunkVars, procVars, diskVars, lastOk>>

\* rel of the file the for loop is at
Rel == pdfPaths[fileIdx]

\* part_002:189 with the count left out of the comparison
NeedEmbedHashOnly(c, rel, fileHash, count) ==
    IF rel \notin DOMAIN c.files THEN TRUE
    ELSE c.files[rel].hash # fileHash

\* part_002:188-189
NeedEmbed(c, rel, fileHash, count) ==
    IF rel \notin DOMAIN c.files THEN TRUE
    ELSE (c.files[rel].hash # fileHash) \/ (c.files[rel].count # count)

\* embeddings[i], undefined past the end
At(embs, i) == IF i \in DOMAIN embs THEN embs[i] ELSE Undefined

\* `c${idCounter++}`
ChunkId(n) == <<"c", n>>

\* part_002:207-214 with the id taken from the loop's i, not from idCounter
AppendChunksLocalIds(chunks, rel, pcs, embs, first) ==
    chunks \o [i \in 1..Len(pcs) |->
                  [id |-> ChunkId(i), source |-> rel,
                   text |-> pcs[i], embedding |-> At(embs, i)]]

\* part_002:207-214
AppendChunks(chunks, rel, pcs, embs, first) ==
    chunks \o [i \in 1..Len(pcs) |->
                  [id |-> ChunkId(first + i - 1), source |-> rel,
                   text |-> pcs[i], embedding |-> At(embs, i)]]

\* the loop left after its first pass, as by a return in its body
NextFileLeavesLoop ==
    /\ fileIdx' = fileIdx + 1
    /\ pc' = "writeIndex"

\* the end of the for loop's body: the next file, or the writes
NextFile ==
    /\ fileIdx' = fileIdx + 1
    /\ pc' = IF fileIdx + 1 > Len(pdfPaths) THEN "writeIndex" ELSE "file"

\* the pieces of a document: chunkText(cleanText(await extractPdfText(buf)))
\* (part_002:185-186)
PiecesOfDoc(doc) == ChunkText(CleanText(ExtractPdfText(doc)), CHUNK_SIZE, CHUNK_OVERLAP)

\* the pieces of the file at rel (part_002:182-186)
PiecesOf(rel) == PiecesOfDoc(pdfDir[rel])

\* a file that needs embedding: read, hash, extract, chunk, then the batch
\* loop starts (part_002:181-194)
ProcessFileEmbed ==
    /\ pc = "file"
    /\ ~ExtractThrows(pdfDir[Rel])
    /\ ~LookupThrows(cache)
    /\ NeedEmbed(cache, Rel, Sha256(pdfDir[Rel]), Len(PiecesOf(Rel)))
    /\ pieces' = PiecesOf(Rel)
    /\ embeddings' = <<>>
    /\ bi' = 0
    /\ fileCalls' = 0
    /\ pc' = "batch"
    /\ UNCHANGED <<runs, runLimit, pdfPaths, fileIdx, cache, index, idCounter>>
    /\ UNCHANGED <<chunkVars, procVars, diskVars, gatewayVars, callLog, batchCalls, writes, recordVars>>

\* a file whose cache entry is reused, and its chunks appended
\* (part_002:181-189, 202-214)
ProcessFileCached ==
    /\ pc = "file"
    /\ ~ExtractThrows(pdfDir[Rel])
    /\ ~LookupThrows(cache)
    /\ ~NeedEmbed(cache, Rel, Sha256(pdfDir[Rel]), Len(PiecesOf(Rel)))
    /\ pieces' = PiecesOf(Rel)
    /\ embeddings' = cache.files[Rel].embeddings
    /\ index' = [index EXCEPT !.chunks =
                    AppendChunks(@, Rel, PiecesOf(Rel), cache.files[Rel].embeddings, idCounter)]
    /\ idCounter' = idCounter + Len(PiecesOf(Rel))
    /\ fileCalls' = 0
    /\ NextFile
    /\ UNCHANGED <<runs, runLimit, pdfPaths, cache, bi>>
    /\ UNCHANGED <<chunkVars, procVars, diskVars, gatewayVars, callLog, batchCalls, writes, recordVars>>

\* extractPdfText throws on the file and main().catch ends the run
\* (part_002:182-185, 79-80, 223-226)
ExtractionFails ==
    /\ pc = "file"
    /\ ExtractThrows(pdfDir[Rel])
    /\ raised' = ExtractionErr
    /\ pc' = "failed"
    /\ UNCHANGED <<texts, tryOrder, provIdx, lastErr, attempt, delay, waited, ret>>
    /\ UNCHANGED <<runs, runLimit, pdfPaths, fileIdx, cache, index, idCounter, pieces, bi, embeddings>>
    /\ UNCHANGED <<chunkVars, procVars, diskVars, historyVars>>

\* the file is read, extracted and chunked, then cache.files[rel] throws a
\* TypeError and main().catch ends the run (part_002:182-188, 223-226)
CacheLookupFails ==
    /\ pc = "file"
    /\ ~ExtractThrows(pdfDir[Rel])
    /\ LookupThrows(cache)
    /\ pieces' = PiecesOf(Rel)
    /\ raised' = TypeErr
    /\ pc' = "failed"
    /\ UNCHANGED <<texts, tryOrder, provIdx, lastErr, attempt, delay, waited, ret>>
    /\ UNCHANGED <<runs, runLimit, pdfPaths, fileIdx, cache, index, idCounter, bi, embeddings>>
    /\ UNCHANGED <<chunkVars, procVars, diskVars, historyVars>>

\* pieces.slice(i, i + BATCH_SIZE - 1): the batch one chunk short
BatchOneShort(pcs, i) == Slice(pcs, i, i + BATCH_SIZE - 1)

\* pieces.slice(i, i + BATCH_SIZE) (part_002:195)
Batch(pcs, i) == Slice(pcs, i, i + BATCH_SIZE)

\* the batch loop calls embedBatch(pieces.slice(i, i + BATCH_SIZE)), which
\* builds tryOrder and enters embedWithRetries for its first provider
\* (part_002:194-196, 138-157, 110-111)
EmbedBatchCall ==
    /\ pc = "batch"
    /\ bi < Len(pieces)
    /\ TryOrder # <<>>
    /\ texts' = Batch(pieces, bi)
    /\ tryOrder' = TryOrder
    /\ provIdx' = 1
    /\ lastErr' = NoErr
    /\ attempt' = 1
    /\ delay' = 1000
    /\ waited' = 0
    /\ ret' = NoRet
    /\ callLog' = <<>>
    /\ batchCalls' = batchCalls + 1
    /\ fileCalls' = fileCalls + 1
    /\ pc' = "attempt"
    /\ UNCHANGED <<raised, writes, recordVars>>
    /\ UNCHANGED <<runs, runLimit, pdfPaths, fileIdx, cache, index, idCounter, pieces, bi, embeddings>>
    /\ UNCHANGED <<chunkVars, procVars, diskVars>>

\* embedBatch finds no client and throws; main().catch ends the run
\* (part_002:150-152, 223-226)
EmbedBatchNoProvider ==
    /\ pc = "batch"
    /\ bi < Len(pieces)
    /\ TryOrder = <<>>
    /\ texts' = Batch(pieces, bi)
    /\ ret' = Thrown(NoProviderErr)
    /\ raised' = NoProviderErr
    /\ callLog' = <<>>
    /\ batchCalls' = batchCalls + 1
    /\ fileCalls' = fileCalls + 1
    /\ pc' = "failed"
    /\ UNCHANGED <<tryOrder, provIdx, lastErr, attempt, delay, waited, writes, recordVars>>
    /\ UNCHANGED <<runs, runLimit, pdfPaths, fileIdx, cache, index, idCounter, pieces, bi, embeddings>>
    /\ UNCHANGED <<chunkVars, procVars, diskVars>>

\* the provider tried now
Current == tryOrder[provIdx]

\* client.embeddings.create resolves: embedWithRetries and embedBatch return
\* the vectors (part_002:113-114, 157)
AttemptOk ==
    /\ pc = "attempt"
    /\ ret' = Returned(Vectors(ResponseData(Current, texts)))
    /\ callLog' = Append(callLog, LogEntry(Current, attempt, "ok"))
    /\ tryOrder' = <<>>
    /\ provIdx' = 0
    /\ lastErr' = NoErr
    /\ attempt' = 0
    /\ delay' = 0
    /\ waited' = 0
    /\ pc' = "returned"
    /\ UNCHANGED <<texts, raised, batchCalls, writes, fileCalls, recordVars>>
    /\ UNCHANGED <<runs, runLimit, pdfPaths, fileIdx, cache, index, idCounter, pieces, bi, embeddings>>
    /\ UNCHANGED <<chunkVars, procVars, diskVars>>

\* client.embeddings.create throws and the catch block waits and retries
\* (part_002:115-130)
AttemptRetry ==
    /\ pc = "attempt"
    /\ \E o \in {Outcome(f) : f \in {g \in ProviderFailures : ~ThrowsNow(g, attempt)}} :
           callLog' = Append(callLog, LogEntry(Current, attempt, o))
    /\ \E jitter \in Jitters : waited' = delay + jitter
    /\ attempt' = attempt + 1
    /\ delay' = NextDelay(delay)
    /\ UNCHANGED <<texts, tryOrder, provIdx, lastErr, ret, raised, batchCalls, writes, fileCalls, recordVars>>
    /\ UNCHANGED mainVars
    /\ UNCHANGED <<chunkVars, procVars, diskVars>>

\* client.embeddings.create throws, embedWithRetries rethrows, and embedBatch
\* goes on to its next provider (part_002:121-123, 155-161, 110-111)
AttemptFailover ==
    /\ pc = "attempt"
    /\ provIdx < Len(tryOrder)
    /\ \E f \in ProviderFailures :
           /\ ThrowsNow(f, attempt)
           /\ callLog' = Append(callLog, LogEntry(Current, attempt, Outcome(f)))
           /\ lastErr' = ProviderErr(f, Current.name, Len(callLog) + 1)
    /\ provIdx' = provIdx + 1
    /\ attempt' = 1
    /\ delay' = 1000
    /\ waited' = 0
    /\ UNCHANGED <<texts, tryOrder, ret, raised, batchCalls, writes, fileCalls, recordVars>>
    /\ UNCHANGED mainVars
    /\ UNCHANGED <<chunkVars, procVars, diskVars>>

\* client.embeddings.create throws, embedWithRetries rethrows, no provider is
\* left: embedBatch throws lastErr and main().catch ends the run
\* (part_002:121-123, 158-163, 223-226)
AttemptRaise ==
    /\ pc = "attempt"
    /\ provIdx = Len(tryOrder)
    /\ \E f \in ProviderFailures :
           /\ ThrowsNow(f, attempt)
           /\ callLog' = Append(callLog, LogEntry(Current, attempt, Outcome(f)))
           /\ ret' = Thrown(ProviderErr(f, Current.name, Len(callLog) + 1))
           /\ raised' = ProviderErr(f, Current.name, Len(callLog) + 1)
    /\ tryOrder' = <<>>
    /\ provIdx' = 0
    /\ lastErr' = NoErr
    /\ attempt' = 0
    /\ delay' = 0
    /\ waited' = 0
    /\ pc' = "failed"
    /\ UNCHANGED <<texts, batchCalls, writes, fileCalls, recordVars>>
    /\ UNCHANGED <<runs, runLimit, pdfPaths, fileIdx, cache, index, idCounter, pieces, bi, embeddings>>
    /\ UNCHANGED <<chunkVars, procVars, diskVars>>

\* embeddings = vecs: the vectors of the earlier batches are lost
AccumulateLast(embs, vecs) == vecs

\* embeddings.push(...vecs)
Accumulate(embs, vecs) == embs \o vecs

\* embedBatch has returned: embeddings.push(...vecs) and the loop's i += BATCH_SIZE
\* (part_002:196-199)
BatchReturned ==
    /\ pc = "returned"
    /\ embeddings' = Accumulate(embeddings, ret.value)
    /\ bi' = bi + BATCH_SIZE
    /\ pc' = "batch"
    /\ texts' = <<>>
    /\ ret' = NoRet
    /\ callLog' = <<>>
    /\ UNCHANGED <<tryOrder, provIdx, lastErr, attempt, delay, waited, raised, batchCalls, writes, fileCalls, recordVars>>
    /\ UNCHANGED <<runs, runLimit, pdfPaths, fileIdx, cache, index, idCounter, pieces>>
    /\ UNCHANGED <<chunkVars, procVars, diskVars>>

\* the batch loop is over: the cache entry is replaced and the chunks are
\* appended (part_002:194, 200-214)
FinishEmbedded ==
    /\ pc = "batch"
    /\ bi >= Len(pieces)
    /\ cache' = [cache EXCEPT !.files =
                    Put(@, Rel, [hash |-> Sha256(pdfDir[Rel]), count |-> Len(pieces),
                                 embeddings |-> embeddings])]
    /\ index' = [index EXCEPT !.chunks = AppendChunks(@, Rel, pieces, embeddings, idCounter)]
    /\ idCounter' = idCounter + Len(pieces)
    /\ NextFile
    /\ UNCHANGED <<runs, runLimit, pdfPaths, pieces, bi, embeddings>>
    /\ UNCHANGED <<chunkVars, procVars, diskVars, gatewayVars, historyVars>>

\* fs.writeFile(OUT_PATH, JSON.stringify(index)) (part_002:217)
WriteIndex ==
    /\ pc = "writeIndex"
    /\ indexFile' = StoredFile(index)
    /\ writes' = Append(writes, "index")
    /\ pc' = "saveCache"
    /\ UNCHANGED <<env, pdfDir, cacheFile>>
    /\ UNCHANGED <<runs, runLimit, pdfPaths, fileIdx, cache, index, idCounter, pieces, bi, embeddings>>
    /\ UNCHANGED <<chunkVars, procVars, gatewayVars, callLog, batchCalls, fileCalls, recordVars>>

\* saveCache(cache) (part_002:63-65, 218)
SaveCache ==
    /\ pc = "saveCache"
    /\ cacheFile' = StoredFile(cache)
    /\ writes' = Append(writes, "cache")
    /\ pc' = "done"
    /\ lastOk' = [done |-> TRUE, dir |-> pdfDir, paths |-> pdfPaths]
    /\ UNCHANGED <<env, pdfDir, indexFile>>
    /\ UNCHANGED <<runs, runLimit, pdfPaths, fileIdx, cache, index, idCounter, pieces, bi, embeddings>>
    /\ UNCHANGED <<chunkVars, procVars, gatewayVars, callLog, batchCalls, fileCalls, startDisk>>

\* no run of the script is in progress (the process of the last one has
\* exited); before the next run a PDF is added, replaced or removed
EditFiles ==
    /\ pc \in {"idle", "done", "failed"}
    /\ runs < runLimit
    /\ \E p \in Paths, d \in Docs \cup {Absent} :
           /\ d # pdfDir[p]
           /\ pdfDir' = [pdfDir EXCEPT ![p] = d]
    /\ pc' = "idle"
    /\ pdfPaths' = <<>>
    /\ fileIdx' = 0
    /\ cache' = EmptyCache
    /\ index' = [model |-> "", dimension |-> 0, chunks |-> <<>>]
    /\ idCounter' = 0
    /\ pieces' = <<>>
    /\ bi' = 0
    /\ embeddings' = <<>>
    /\ texts' = <<>>
    /\ ret' = NoRet
    /\ raised' = NoErr
    /\ callLog' = <<>>
    /\ batchCalls' = 0
    /\ writes' = <<>>
    /\ fileCalls' = 0
    /\ startDisk' = Disk
    /\ UNCHANGED <<env, cacheFile, indexFile, runs, runLimit, lastOk>>
    /\ UNCHANGED <<tryOrder, provIdx, lastErr, attempt, delay, waited>>
    /\ UNCHANGED <<chunkVars, procVars>>

\* two rebuild requests have spawned the script twice (route.ts:16-22: exec
\* of the script, with no lock held or looked for): the operating system
\* suspends the process that is running, at any of its awaits, and resumes
\* the other one; the two share nothing but the files
Switch ==
    /\ self' = 3 - self
    /\ other' = Locals
    /\ pc' = other.pc
    /\ pdfPaths' = other.pdfPaths
    /\ fileIdx' = other.fileIdx
    /\ cache' = other.cache
    /\ index' = other.index
    /\ idCounter' = other.idCounter
    /\ pieces' = other.pieces
    /\ bi' = other.bi
    /\ embeddings' = other.embeddings
    /\ texts' = other.texts
    /\ tryOrder' = other.tryOrder
    /\ provIdx' = other.provIdx
    /\ lastErr' = other.lastErr
    /\ attempt' = other.attempt
    /\ delay' = other.delay
    /\ waited' = other.waited
    /\ ret' = other.ret
    /\ raised' = other.raised
    /\ callLog' = other.callLog
    /\ batchCalls' = other.batchCalls
    /\ writes' = other.writes
    /\ fileCalls' = other.fileCalls
    /\ startDisk' = other.startDisk
    /\ UNCHANGED <<chunkVars, diskVars, runs, runLimit, lastOk>>

\* a PDF is put into knowledge/pdfs after one process has listed the
\* directory (part_002:170) and before the other one has
DropFile ==
    /\ runs = 1
    /\ \E p \in Paths, d \in {"memo", "broken"} :
           /\ pdfDir[p] = Absent
           /\ pdfDir' = [pdfDir EXCEPT ![p] = d]
    /\ UNCHANGED <<env, cacheFile, indexFile>>
    /\ UNCHANGED <<mainVars, gatewayVars, historyVars, procVars, chunkVars>>

Next ==
    \/ StartRun
    \/ ProcessFileEmbed
    \/ ProcessFileCached
    \/ ExtractionFails
    \/ CacheLookupFails
    \/ EmbedBatchCall
    \/ EmbedBatchNoProvider
    \/ AttemptOk
    \/ AttemptRetry
    \/ AttemptFailover
    \/ AttemptRaise
    \/ BatchReturned
    \/ FinishEmbedded
    \/ WriteIndex
    \/ SaveCache
    \/ EditFiles

\* ------------------------------------------------------------------------
\* Specifications
\* ------------------------------------------------------------------------

\* the data directory before the first run of the script
FreshDisk == cacheFile = MissingFile /\ indexFile = MissingFile

\* the data directory as an earlier run left it: a run made with only
\* OPENAI_API_KEY set, over a directory that held the memo at b.pdf
PriorPath == "knowledge/pdfs/b.pdf"

PriorEmbeddings ==
    Vectors(ResponseData(Provider("openai", DEFAULT_OPENAI_MODEL), PiecesOfDoc("memo")))

PriorCacheFile ==
    StoredFile(CacheObject(Put(EmptyMap, PriorPath,
                               [hash |-> Sha256("memo"), count |-> Len(PiecesOfDoc("memo")),
                                embeddings |-> PriorEmbeddings])))

PriorIndexFile ==
    StoredFile([model |-> DEFAULT_OPENAI_MODEL, dimension |-> 1536,
                chunks |-> AppendChunks(<<>>, PriorPath, PiecesOfDoc("memo"), PriorEmbeddings, 1)])

PriorDisk == cacheFile = PriorCacheFile /\ indexFile = PriorIndexFile

\* the data directory as an earlier run left it that was made with
\* CHUNK_SIZE=1 and CHUNK_OVERLAP=0 in the environment (and only
\* OPENAI_API_KEY set), over a directory that held the memo at b.pdf
StalePieces == ChunkText(CleanText(ExtractPdfText("memo")), 1, 0)

StaleEmbeddings ==
    Vectors(ResponseData(Provider("openai", DEFAULT_OPENAI_MODEL), StalePieces))

StaleCacheFile ==
    StoredFile(CacheObject(Put(EmptyMap, PriorPath,
                               [hash |-> Sha256("memo"), count |-> Len(StalePieces),
                                embeddings |-> StaleEmbeddings])))

StaleIndexFile ==
    StoredFile([model |-> DEFAULT_OPENAI_MODEL, dimension |-> 1536,
                chunks |-> AppendChunks(<<>>, PriorPath, StalePieces, StaleEmbeddings, 1)])

StaleDisk == cacheFile = StaleCacheFile /\ indexFile = StaleIndexFile

\* the data directory of the earlier run with its cache file damaged since:
\* text that is not JSON, the JSON text null, the JSON text {}
CorruptDisk == cacheFile = CorruptFile /\ indexFile = PriorIndexFile

NullDisk == cacheFile = StoredFile(NullValue) /\ indexFile = PriorIndexFile

NoFilesDisk == cacheFile = StoredFile(ObjectWithoutFiles) /\ indexFile = PriorIndexFile

\* no chunkText call is being stepped
ChunkIdle ==
    /\ text = <<>>
    /\ size = 0
    /\ overlap = 0
    /\ ci = 0
    /\ out = <<>>
    /\ cpc = "idle"

\* no run of the script was started
RunIdle ==
    /\ RunInit
    /\ env = [EMB_PROVIDER |-> "", EMB_MODEL |-> "", EMB_MAX_RETRIES |-> "",
              OPENAI_API_KEY |-> FALSE, OPENROUTER_API_KEY |-> FALSE]
    /\ pdfDir = [p \in Paths |-> Absent]
    /\ FreshDisk
    /\ startDisk = Disk
    /\ other = NoProcess
    /\ runLimit = 0

\* a call chunkText(text, size, overlap) about to enter its loop
ChunkInit ==
    /\ text \in Texts
    /\ size \in 0..MaxSize
    /\ overlap \in 0..MaxSize
    /\ ci = 0
    /\ out = <<>>
    /\ cpc = "loop"
    /\ RunIdle

\* one run of the script, in any environment with EMB_MAX_RETRIES unset or 2
\* and on any directory, the first run or a later one
Init ==
    /\ RunInit
    /\ env.EMB_MAX_RETRIES \in {"", "2"}
    /\ FreshDisk \/ PriorDisk \/ NullDisk
    /\ startDisk = Disk
    /\ other = NoProcess
    /\ runLimit = 1
    /\ ChunkIdle

Spec == Init /\ [][Next]_vars

\* successive runs of the script, the directory edited between them, made
\* with EMB_MAX_RETRIES=2, neither EMB_PROVIDER nor EMB_MODEL set and at most
\* one of the two API keys, from a fresh data directory or from one whose
\* cache file holds {}
RunsInit ==
    /\ RunInit
    /\ env.EMB_MAX_RETRIES = "2"
    /\ env.EMB_PROVIDER = ""
    /\ env.EMB_MODEL = ""
    /\ ~(env.OPENAI_API_KEY /\ env.OPENROUTER_API_KEY)
    /\ FreshDisk \/ NoFilesDisk
    /\ startDisk = Disk
    /\ other = NoProcess
    /\ runLimit = MaxRuns
    /\ ChunkIdle

\* the steps of these runs: with at most one key tryOrder has at most one
\* entry, and embedBatch never has a next provider to go on to
RunsNext ==
    \/ StartRun
    \/ ProcessFileEmbed
    \/ ProcessFileCached
    \/ ExtractionFails
    \/ CacheLookupFails
    \/ EmbedBatchCall
    \/ EmbedBatchNoProvider
    \/ AttemptOk
    \/ AttemptRetry
    \/ AttemptRaise
    \/ BatchReturned
    \/ FinishEmbedded
    \/ WriteIndex
    \/ SaveCache
    \/ EditFiles

RunsSpec == RunsInit /\ [][RunsNext]_vars

\* one run of the script made with EMB_MAX_RETRIES=2, on any directory and
\* on a data directory in any of the conditions above
DiskInit ==
    /\ RunInit
    /\ FreshDisk \/ PriorDisk \/ StaleDisk \/ CorruptDisk \/ NullDisk \/ NoFilesDisk
    /\ startDisk = Disk
    /\ other = NoProcess
    /\ runLimit = 1
    /\ env.EMB_MAX_RETRIES = "2"
    /\ ChunkIdle

DiskSpec == DiskInit /\ [][Next]_vars

\* one run of the script made with EMB_MAX_RETRIES=8 and neither EMB_PROVIDER
\* nor EMB_MODEL set: the retry loop goes on past the cap of its delay
BackoffInit ==
    /\ RunInit
    /\ env.EMB_MAX_RETRIES = "8"
    /\ env.EMB_PROVIDER = ""
    /\ env.EMB_MODEL = ""
    /\ FreshDisk \/ PriorDisk \/ NullDisk
    /\ startDisk = Disk
    /\ other = NoProcess
    /\ runLimit = 1
    /\ ChunkIdle

BackoffSpec == BackoffInit /\ [][Next]_vars

\* two processes of the script run at once, with EMB_MAX_RETRIES=2, neither
\* EMB_PROVIDER nor EMB_MODEL set and both API keys or none, on a fresh data
\* directory or on one whose cache file holds {}; knowledge/pdfs holds the
\* memo or nothing, and a PDF is put there between the two listings
RaceInit ==
    /\ RunInit
    /\ pdfDir["knowledge/pdfs/a.pdf"] \in {"memo", Absent}
    /\ pdfDir["knowledge/pdfs/b.pdf"] = Absent
    /\ env.EMB_MAX_RETRIES = "2"
    /\ env.EMB_PROVIDER = ""
    /\ env.EMB_MODEL = ""
    /\ env.OPENAI_API_KEY = env.OPENROUTER_API_KEY
    /\ FreshDisk \/ NoFilesDisk
    /\ startDisk = Disk
    /\ other = IdleLocals(Disk)
    /\ runLimit = 2
    /\ ChunkIdle

RaceNext ==
    \/ StartRun
    \/ ProcessFileEmbed
    \/ ProcessFileCached
    \/ ExtractionFails
    \/ CacheLookupFails
    \/ EmbedBatchCall
    \/ EmbedBatchNoProvider
    \/ AttemptOk
    \/ AttemptRetry
    \/ AttemptFailover
    \/ AttemptRaise
    \/ BatchReturned
    \/ FinishEmbedded
    \/ WriteIndex
    \/ SaveCache
    \/ Switch
    \/ DropFile

RaceSpec == RaceInit /\ [][RaceNext]_vars

\* the calls of chunkText
ChunkSpec == ChunkInit /\ [][ChunkNext]_vars

\* ------------------------------------------------------------------------
\* Claims about chunkText, checked under ChunkSpec
\* ------------------------------------------------------------------------

\* the chunk list of a returned call with a valid configuration
ChunkReturnedValid == cpc = "returned" /\ overlap < size

\* C1: with 0 <= overlap < size, chunkText returns exactly the windows
\* text[k*(S-O) : k*(S-O)+S] for k = 0, 1, ... while k*(S-O) < length(text),
\* in that order; every chunk is non-empty, the chunks shorter than S are the
\* last ones, and the empty text yields no chunk.
C1_ChunksAreWindows ==
    ChunkReturnedValid =>
        LET d == size - overlap
            L == Len(text)
            n == Cardinality({k \in 0..L : k * d < L})
        IN  /\ out = [k \in 1..n |-> SubSeq(text, (k - 1) * d + 1, Min((k - 1) * d + size, L))]
            /\ \A k \in 1..Len(out) : Len(out[k]) > 0
            /\ \A k \in 1..Len(out) :
                   Len(out[k]) < size => \A j \in k..Len(out) : Len(out[j]) < size
            /\ (L = 0 => out = <<>>)

\* a returned call with a real overlap, three or more chunks and a short tail
C1_Witness ==
    /\ ChunkReturnedValid
    /\ overlap > 0
    /\ Len(out) >= 3
    /\ Len(out[1]) = size
    /\ Len(out[Len(out)]) < size

\* C2 as stated: the number of chunks is ceil(max(L - O, 0) / (S - O)).
C2_CountFormulaAsStated ==
    ChunkReturnedValid =>
        Len(out) = CeilDiv(Max(Len(text) - overlap, 0), size - overlap)

\* C2 amended: with 0 <= O < S the number of chunks is ceil(L / (S - O)): one
\* chunk per offset k*(S-O) below L, the overlap not subtracted from L.
C2_CountFormula ==
    ChunkReturnedValid => Len(out) = CeilDiv(Len(text), size - overlap)

\* a returned call where the two formulas differ: the last chunk starts inside
\* the previous chunk's window and adds no new character
C2_Witness ==
    /\ ChunkReturnedValid
    /\ Len(out) >= 2
    /\ Len(out) # CeilDiv(Max(Len(text) - overlap, 0), size - overlap)

\* the text after the first n characters (String.prototype.slice(n))
Drop(s, n) == IF n >= Len(s) THEN <<>> ELSE SubSeq(s, n + 1, Len(s))

\* the later chunks, each without its first ov characters, concatenated
RECURSIVE ConcatDropped(_, _)
ConcatDropped(chunks, ov) ==
    IF chunks = <<>> THEN <<>>
    ELSE Drop(Head(chunks), ov) \o ConcatDropped(Tail(chunks), ov)

\* the first chunk whole, then the later chunks with their overlap removed
Rebuild(chunks, ov) ==
    IF chunks = <<>> THEN <<>>
    ELSE Head(chunks) \o ConcatDropped(Tail(chunks), ov)

\* C3: chunk coverage round trip: with 0 <= overlap < size, the first chunk
\* followed by every later chunk without its first O characters is the input
\* text exactly.
C3_CoverageRoundTrip == ChunkReturnedValid => Rebuild(out, overlap) = text

\* a returned call whose text holds both characters, with a real overlap and a
\* last chunk shorter than the overlap
C3_Witness ==
    /\ ChunkReturnedValid
    /\ overlap > 0
    /\ Len(out) >= 3
    /\ Len(out[Len(out)]) < overlap
    /\ \E j, k \in 1..Len(text) : text[j] # text[k]

\* C4 as stated, for a non-empty text: a call with overlap >= size fails fast:
\* it runs no iteration of the loop and returns no chunk list.
C4_FailsFastOnBadOverlap ==
    (overlap >= size /\ text # <<>>) => (out = <<>> /\ cpc # "returned")

\* ------------------------------------------------------------------------
\* Claims about embedWithRetries and embedBatch, checked under Spec
\* ------------------------------------------------------------------------

BothKeys == env.OPENAI_API_KEY /\ env.OPENROUTER_API_KEY

NoKeys == ~env.OPENAI_API_KEY /\ ~env.OPENROUTER_API_KEY

\* the configured primary provider and the other one
Primary == EMB_PROVIDER

Secondary == IF EMB_PROVIDER = "openai" THEN "openrouter" ELSE "openai"

DefaultModelOf(name) ==
    IF name = "openai" THEN DEFAULT_OPENAI_MODEL ELSE DEFAULT_OPENROUTER_MODEL

\* the places of a provider's calls in the log of the embedBatch call
CallsTo(name) == {j \in DOMAIN callLog : callLog[j].name = name}

\* the vectors a provider's model computes for the texts of the call
VectorsFrom(name, model) == [i \in 1..Len(texts) |-> EmbeddingOf(name, model, texts[i])]

PrimaryExhausted ==
    /\ Cardinality(CallsTo(Primary)) = MAX_RETRIES
    /\ \A j \in CallsTo(Primary) : callLog[j].outcome = "transient"

\* C6: failover: with both credentials configured, the secondary is called
\* only after the primary's last attempt and with its own default model; when
\* the primary has used up its retries on transient failures embedBatch goes
\* on to the secondary instead of raising, and when the secondary then
\* succeeds embedBatch returns the secondary's vectors without raising.
C6_Failover ==
    BothKeys =>
        /\ \A j \in CallsTo(Secondary) : \A k \in CallsTo(Primary) : k < j
        /\ \A j \in CallsTo(Secondary) : callLog[j].model = DefaultModelOf(Secondary)
        /\ PrimaryExhausted =>
               /\ Len(callLog) = MAX_RETRIES => (pc = "attempt" /\ Current.name = Secondary)
               /\ ret.kind # "none" => CallsTo(Secondary) # {}
               /\ (CallsTo(Secondary) # {} /\ callLog[Len(callLog)].outcome = "ok") =>
                      /\ pc = "returned"
                      /\ ret = Returned(VectorsFrom(Secondary, DefaultModelOf(Secondary)))
                      /\ raised = NoErr

\* the primary used up its retries, the secondary answered, and EMB_MODEL is
\* not the secondary's default model
C6_Witness ==
    /\ BothKeys
    /\ PrimaryExhausted
    /\ MAX_RETRIES = 6
    /\ ret.kind = "vectors"
    /\ callLog[Len(callLog)].name = Secondary
    /\ EMB_MODEL # DefaultModelOf(Secondary)
    /\ Len(texts) = 2

\* every call of the embedBatch call so far failed transiently
AllTransient == \A j \in DOMAIN callLog : callLog[j].outcome = "transient"

\* C7, in a state: exhaustion: with both providers configured and every call
\* failing transiently, the calls are MAX_RETRIES calls to the primary and
\* then MAX_RETRIES calls to the secondary, embedBatch raises exactly when
\* the last of them has failed, and it raises that call's error; no
\* embedBatch call makes more than 2 x MAX_RETRIES provider calls.
ExhaustionState ==
    /\ Len(callLog) <= 2 * MAX_RETRIES
    /\ pc = "attempt" => Len(callLog) < 2 * MAX_RETRIES
    /\ (BothKeys /\ AllTransient) =>
           /\ \A j \in DOMAIN callLog :
                  /\ callLog[j].name = IF j <= MAX_RETRIES THEN Primary ELSE Secondary
                  /\ callLog[j].attempt = IF j <= MAX_RETRIES THEN j ELSE j - MAX_RETRIES
           /\ (callLog # <<>> /\ Len(callLog) < 2 * MAX_RETRIES) => pc = "attempt"
           /\ Len(callLog) = 2 * MAX_RETRIES =>
                  /\ pc = "failed"
                  /\ ret.kind = "thrown"
                  /\ ret.error.kind = "provider"
                  /\ ret.error.by = Secondary
                  /\ ret.error.seq = 2 * MAX_RETRIES
                  /\ Outcome(ret.error) = "transient"
                  /\ raised = ret.error

\* C7, in a step: an embedBatch call in progress ends or makes one more
\* provider call in each of its steps, so that it always terminates.
ExhaustionStep ==
    pc = "attempt" => (pc' # "attempt" \/ Len(callLog') = Len(callLog) + 1)

\* C7: exhaustion (ExhaustionState in every state, ExhaustionStep in every
\* step).
C7_Exhaustion == [](ExhaustionState) /\ [][ExhaustionStep]_vars

\* both providers failed transiently MAX_RETRIES times and embedBatch raised
C7_Witness ==
    /\ BothKeys
    /\ AllTransient
    /\ MAX_RETRIES = 6
    /\ Len(callLog) = 2 * MAX_RETRIES
    /\ pc = "failed"

\* C8 as stated: a non-transient provider failure aborts immediately: no
\* further embedding request is made in that embedBatch call, on the same
\* provider or on another, and the error propagates to the caller.
C8_FatalFailureAborts ==
    \A j \in DOMAIN callLog :
        callLog[j].outcome = "fatal" =>
            /\ j = Len(callLog)
            /\ ret.kind # "none" => (ret.kind = "thrown" /\ ret.error.seq = j)

\* C9: within one provider, embedWithRetries calls again only after a
\* transient failure, and it does so while attempts are left; it makes at most
\* MAX_RETRIES attempts, numbered from 1; the first success is its last call
\* and it returns that call's vectors; when attempt MAX_RETRIES fails it
\* throws that attempt's error (to embedBatch, which keeps it in lastErr or
\* raises it).
C9_RetriesWithinProvider ==
    \A j \in DOMAIN callLog :
        LET e == callLog[j]
            retried == j < Len(callLog) /\ callLog[j + 1].name = e.name
        IN  /\ e.attempt \in 1..MAX_RETRIES
            /\ (j = 1 \/ (j > 1 /\ callLog[j - 1].name # e.name)) => e.attempt = 1
            /\ retried => (e.outcome = "transient" /\ callLog[j + 1].attempt = e.attempt + 1)
            /\ (e.outcome = "transient" /\ e.attempt < MAX_RETRIES /\ j = Len(callLog)) =>
                   (pc = "attempt" /\ Current.name = e.name /\ attempt = e.attempt + 1)
            /\ e.outcome = "ok" =>
                   /\ j = Len(callLog)
                   /\ ret = Returned(VectorsFrom(e.name, e.model))
            /\ (e.outcome # "ok" /\ e.attempt = MAX_RETRIES) =>
                   /\ ~retried
                   /\ j = Len(callLog) =>
                          \/ (pc = "attempt" /\ lastErr.seq = j /\ lastErr.by = e.name
                              /\ Outcome(lastErr) = e.outcome)
                          \/ (pc = "failed" /\ ret.kind = "thrown" /\ ret.error.seq = j
                              /\ ret.error.by = e.name /\ Outcome(ret.error) = e.outcome)

\* the only configured provider failed transiently at each of the default 6
\* attempts, and the last error was thrown
C9_Witness ==
    /\ ~BothKeys
    /\ MAX_RETRIES = 6
    /\ Len(callLog) = MAX_RETRIES
    /\ AllTransient
    /\ ret.kind = "thrown"
    /\ ret.error.seq = MAX_RETRIES

\* C10: with neither credential configured no provider request is ever made,
\* and a run that called embedBatch has failed at its first call with the
\* no-provider error, having written neither the index file nor the cache
\* file.
C10_NoProviderConfigured ==
    NoKeys =>
        /\ callLog = <<>>
        /\ pc \notin {"attempt", "returned"}
        /\ batchCalls > 0 =>
               /\ batchCalls = 1
               /\ pc = "failed"
               /\ ret = Thrown(NoProviderErr)
               /\ raised = NoProviderErr
               /\ writes = <<>>
               /\ Disk = startDisk

\* a run without credentials that reused a cache entry, then called
\* embedBatch and failed, the files of the earlier run still in place
C10_Witness ==
    /\ NoKeys
    /\ pc = "failed"
    /\ batchCalls = 1
    /\ index.chunks # <<>>
    /\ PriorDisk

\* ------------------------------------------------------------------------
\* Claims about the cache and the run, checked under DiskSpec, RunsSpec and Spec
\* ------------------------------------------------------------------------

\* the cache holds an entry for the file the loop is at whose hash is the
\* file's current hash and whose count is the file's current chunk count
ValidEntry ==
    IF Rel \notin DOMAIN cache.files THEN FALSE
    ELSE /\ cache.files[Rel].hash = Sha256(pdfDir[Rel])
         /\ cache.files[Rel].count = Len(PiecesOf(Rel))

\* the loop is at a file that it can read, extract and look up in the cache
AtReadableFile == pc = "file" /\ ~ExtractThrows(pdfDir[Rel]) /\ ~LookupThrows(cache)

\* the loop has just finished with the file it was at
FileDone == pc' \in {"file", "writeIndex"} /\ fileIdx' = fileIdx + 1

\* C11, in a state: embedBatch is called for a file only if the cache held no
\* valid entry for it.
SkipState == pc \in {"batch", "attempt", "returned"} => ~ValidEntry

\* C11, in a step: a file is extracted and chunked in both cases; with a
\* valid entry the step is done with the file, without an embedBatch call and
\* with the cache as it was; without one the batch loop is entered, and when
\* the loop ends the entry of the file is replaced by the current hash, the
\* current count and the embeddings just received.
SkipStep ==
    /\ AtReadableFile =>
           /\ pieces' = PiecesOf(Rel)
           /\ cache' = cache
           /\ batchCalls' = batchCalls
           /\ IF ValidEntry
              THEN FileDone /\ embeddings' = cache.files[Rel].embeddings
              ELSE pc' = "batch" /\ fileIdx' = fileIdx /\ embeddings' = <<>>
    /\ (pc = "batch" /\ pc' \notin {"batch", "attempt", "failed"}) =>
           /\ FileDone
           /\ cache'.files =
                  Put(cache.files, Rel,
                      [hash |-> Sha256(pdfDir[Rel]), count |-> Len(PiecesOf(Rel)),
                       embeddings |-> embeddings])
           /\ fileCalls > 0 => \A i \in DOMAIN embeddings : embeddings[i].of = PiecesOf(Rel)[i]

\* C11: a file's embedding step is skipped if and only if the cache holds a
\* valid entry for it (same hash, same chunk count); then no embedBatch call
\* is made and the entry stays as it is, and otherwise the file is embedded
\* and its entry replaced; extraction and chunking run in both cases.
C11_SkipIffValidEntry == [](SkipState) /\ [][SkipStep]_vars

\* a run that reused the entry of b.pdf and embedded a.pdf, completed
C11_Witness ==
    /\ pc = "done"
    /\ startDisk.cache = PriorCacheFile
    /\ Len(pdfPaths) = 2
    /\ pdfDir[PriorPath] = "memo"
    /\ batchCalls = 2
    /\ cache.files[PriorPath] = PriorCacheFile.data.files[PriorPath]
    /\ DOMAIN cache.files = Paths

\* a run has written its index and is about to save its cache, an earlier run
\* of the behaviour completed, and the directory is as that run found it
SecondRunOnSameFiles ==
    /\ pc = "saveCache"
    /\ lastOk.done
    /\ pdfDir = lastOk.dir

\* C12 as stated: cache idempotence: a second run over the same files with
\* the same configuration makes zero embedBatch calls and writes an index
\* identical to the first run's index (same model, dimension, ids, sources,
\* texts and embeddings, in the same order).
C12_CacheIdempotence ==
    SecondRunOnSameFiles => (batchCalls = 0 /\ indexFile = startDisk.index)

\* what does hold of the second run: it makes no embedBatch call, and its
\* index is the first run's whenever the glob lists the files in the order
\* it listed them in the first run
IdempotentInSameOrder ==
    SecondRunOnSameFiles =>
        /\ batchCalls = 0
        /\ cache = startDisk.cache.data
        /\ pdfPaths = lastOk.paths => indexFile = startDisk.index

\* the files whose content is not what the last completed run found
Changed == {p \in Paths : pdfDir[p] # lastOk.dir[p]}

\* since the last completed run the bytes of the file at p changed, and
\* nothing else did
OnlyChanged(p) ==
    /\ lastOk.done
    /\ Changed = {p}
    /\ pdfDir[p] # Absent
    /\ lastOk.dir[p] # Absent

\* C13: cache invalidation: when exactly one file's bytes changed since the
\* last completed run, every embedBatch call of the next run is for that
\* file; when that run has processed all files it has made
\* ceil(count / BATCH_SIZE) calls, count the changed file's chunk count, and
\* the cache it is about to save holds every other file's entry as the cache
\* file held it before the run.
C13_CacheInvalidation ==
    \A p \in Paths :
        OnlyChanged(p) =>
            /\ pc \in {"batch", "attempt", "returned"} => Rel = p
            /\ pc \notin {"idle", "done"} => batchCalls <= CeilDiv(Len(PiecesOf(p)), BATCH_SIZE)
            /\ pc = "saveCache" =>
                   /\ batchCalls = CeilDiv(Len(PiecesOf(p)), BATCH_SIZE)
                   /\ cache.files[p].hash = Sha256(pdfDir[p])
                   /\ \A q \in DOMAIN startDisk.cache.data.files \ {p} :
                          cache.files[q] = startDisk.cache.data.files[q]

\* the second run has re-embedded the one changed file, three chunks in two
\* batches, next to an unchanged file
C13_Witness ==
    /\ pc = "saveCache"
    /\ OnlyChanged("knowledge/pdfs/a.pdf")
    /\ pdfDir["knowledge/pdfs/a.pdf"] = "report"
    /\ pdfDir["knowledge/pdfs/b.pdf"] = "memo"
    /\ batchCalls = 2
    /\ cache.files["knowledge/pdfs/a.pdf"] # startDisk.cache.data.files["knowledge/pdfs/a.pdf"]

\* the entries of a cache
Entries(c) == {c.files[p] : p \in DOMAIN c.files}

\* the chunks of an index file, none when the file does not exist
ChunksOfFile(file) == IF file.state = "ok" THEN file.data.chunks ELSE <<>>

Unreadable(file) == file.state # "ok"

\* the cache file the run found parsed to a value without a files map
Malformed(file) == file.state = "ok" /\ file.data.kind # "object"

\* a run has loaded its cache and is at its first file
AtFirstFile == runs > 0 /\ pc = "file" /\ fileIdx = 1

\* C15 as stated: loadCache never fails the run: when the cache file is
\* missing, unreadable or corrupt, or parses to JSON that is no object with a
\* files map (null, {}), the run proceeds as from the empty cache
\* { files: {} } and no error of the cache lookup ends it.
C15_LoadCacheNeverFails ==
    (runs > 0 /\ (Unreadable(startDisk.cache) \/ Malformed(startDisk.cache))) =>
        /\ AtFirstFile => cache = EmptyCache
        /\ raised # TypeErr

\* what does hold: a missing file and a file that is not JSON give the empty
\* cache, and no run that found one ends in the TypeError
UnreadableIsEmpty ==
    (runs > 0 /\ Unreadable(startDisk.cache)) =>
        /\ AtFirstFile => cache = EmptyCache
        /\ raised # TypeErr

\* the chunks of an index that come from the file at rel
ChunksFrom(chunks, rel) == SelectSeq(chunks, LAMBDA c : c.source = rel)

\* every discovered file has been processed and its chunks appended
AllFilesAppended ==
    /\ fileIdx = Len(pdfPaths) + 1
    /\ \A k \in DOMAIN pdfPaths :
           Len(ChunksFrom(index.chunks, pdfPaths[k])) = Len(PiecesOf(pdfPaths[k]))

\* C16, in a state: a run writes nothing before every discovered file is
\* processed and appended, then the index, then the cache; a run that
\* failed has written nothing, and the two files are as it found them.
WriteOrderState ==
    /\ writes \in {<<>>, <<"index">>, <<"index", "cache">>}
    /\ writes = <<>> => Disk = startDisk
    /\ writes # <<>> =>
           /\ AllFilesAppended
           /\ raised = NoErr
           /\ indexFile = StoredFile(index)
    /\ writes = <<"index">> => (pc = "saveCache" /\ cacheFile = startDisk.cache)
    /\ writes = <<"index", "cache">> => (pc = "done" /\ cacheFile = StoredFile(cache))
    /\ pc = "done" => writes = <<"index", "cache">>
    /\ pc = "failed" => (writes = <<>> /\ raised # NoErr)

\* C16, in a step: the index file changes only in the write that follows the
\* loop, and the cache file only in the write that follows the index write.
WriteOrderStep ==
    /\ indexFile' # indexFile => (pc = "writeIndex" /\ writes = <<>> /\ cacheFile' = cacheFile)
    /\ cacheFile' # cacheFile => (pc = "saveCache" /\ writes = <<"index">> /\ indexFile' = indexFile)

\* C16: the index file and the cache file are written only after every
\* discovered file has been processed and appended, the cache only after the
\* index; a run that aborts before that (provider failure after failover,
\* extraction error) writes neither file, and both keep the contents they
\* had before the run.
C16_WritesAfterAllFiles == [](WriteOrderState) /\ [][WriteOrderStep]_vars

\* a run over an earlier run's files that appended its first file, then
\* failed at the second after failover, nothing written
C16_Witness ==
    /\ pc = "failed"
    /\ raised.kind = "provider"
    /\ Len(callLog) > MAX_RETRIES
    /\ fileIdx = 2
    /\ index.chunks # <<>>
    /\ startDisk = [cache |-> PriorCacheFile, index |-> PriorIndexFile]
    /\ Disk = startDisk

\* the source and the text of every chunk of the files listed, file by file
\* in the order listed, each file's chunks in the chunker's order
RECURSIVE ChunksOfFiles(_)
ChunksOfFiles(paths) ==
    IF paths = <<>> THEN <<>>
    ELSE [i \in 1..Len(PiecesOf(Head(paths))) |->
             [source |-> Head(paths), text |-> PiecesOf(Head(paths))[i]]]
         \o ChunksOfFiles(Tail(paths))

\* C17: the index file a run has written holds exactly the chunks of the
\* files discovered in that run, file by file in processing order and in
\* chunker order within a file, each with its file's relative path as
\* source, with ids c1, c2, ..., cN and nothing from earlier runs; with zero
\* PDFs the run does not fail and writes an index with zero chunks.
C17_IndexIsChunksOfRun ==
    /\ pc \in {"saveCache", "done"} =>
           LET written == indexFile.data.chunks
               expected == ChunksOfFiles(pdfPaths)
           IN  /\ Len(written) = Len(expected)
               /\ \A i \in DOMAIN written :
                      /\ written[i].id = ChunkId(i)
                      /\ written[i].source = expected[i].source
                      /\ written[i].text = expected[i].text
    /\ (runs > 0 /\ pc # "idle" /\ pdfPaths = <<>>) =>
           /\ pc \in {"writeIndex", "saveCache", "done"}
           /\ index.chunks = <<>>

\* a completed run over a 3-chunk PDF and a 1-chunk PDF, the 3-chunk one
\* processed last, on a data directory that held an earlier run's index
C17_Witness ==
    /\ pc = "done"
    /\ startDisk.index = PriorIndexFile
    /\ Len(pdfPaths) = 2
    /\ Len(PiecesOf(pdfPaths[1])) = 1
    /\ Len(PiecesOf(pdfPaths[2])) = 3
    /\ Len(indexFile.data.chunks) = 4
    /\ indexFile.data.chunks[4].id = ChunkId(4)

\* C18 as stated: every chunk of a written index has an embedding vector
\* whose length is the index's declared dimension, whichever provider and
\* model produced it and whether it was freshly embedded or taken from the
\* cache.
C18_EmbeddingLengthIsDimension ==
    pc \in {"saveCache", "done"} =>
        \A i \in DOMAIN indexFile.data.chunks :
            indexFile.data.chunks[i].embedding.length = indexFile.data.dimension

\* the selected provider: the EMB_PROVIDER override if set, else openai if
\* its credential is present, else openrouter if its credential is present,
\* else openai
SelectedProvider ==
    IF env.EMB_PROVIDER # "" THEN env.EMB_PROVIDER
    ELSE IF env.OPENAI_API_KEY THEN "openai"
    ELSE IF env.OPENROUTER_API_KEY THEN "openrouter"
    ELSE "openai"

OtherProvider == IF SelectedProvider = "openai" THEN "openrouter" ELSE "openai"

HasCredential(name) ==
    IF name = "openai" THEN env.OPENAI_API_KEY ELSE env.OPENROUTER_API_KEY

\* the try order holds only providers whose credential is present, each at
\* most once, the selected one before the other, the selected one with
\* EMB_MODEL and the other with its own default model
WellFormedOrder ==
    /\ \A k \in DOMAIN tryOrder : HasCredential(tryOrder[k].name)
    /\ \A j, k \in DOMAIN tryOrder : tryOrder[j].name = tryOrder[k].name => j = k
    /\ \A j, k \in DOMAIN tryOrder :
           (tryOrder[j].name = SelectedProvider /\ tryOrder[k].name = OtherProvider) => j < k
    /\ \A k \in DOMAIN tryOrder :
           tryOrder[k].model = IF tryOrder[k].name = SelectedProvider THEN EMB_MODEL
                               ELSE DefaultModelOf(tryOrder[k].name)

\* C19 as stated: the provider tried first is the selected provider (the
\* EMB_PROVIDER override if set, else openai if its credential is present,
\* else openrouter if its credential is present, else openai), and the try
\* order is well formed.
C19_TriedFirstIsSelected ==
    pc = "attempt" =>
        /\ tryOrder[1].name = SelectedProvider
        /\ callLog # <<>> => callLog[1].name = SelectedProvider
        /\ WellFormedOrder

\* C19, amended: the try order is well formed and holds every provider whose
\* credential is present; so the provider tried first is the selected one
\* when its credential is present and otherwise the other one, with its own
\* default model; every call goes to the provider the order is at.
C19_TryOrder ==
    pc = "attempt" =>
        /\ WellFormedOrder
        /\ \A name \in {"openai", "openrouter"} :
               HasCredential(name) => \E k \in DOMAIN tryOrder : tryOrder[k].name = name
        /\ tryOrder[1] = IF HasCredential(SelectedProvider)
                         THEN Provider(SelectedProvider, EMB_MODEL)
                         ELSE Provider(OtherProvider, DefaultModelOf(OtherProvider))
        /\ \A j \in DOMAIN callLog :
               \E k \in 1..provIdx :
                   callLog[j].name = tryOrder[k].name /\ callLog[j].model = tryOrder[k].model
        /\ callLog # <<>> => callLog[1].name = tryOrder[1].name

\* EMB_PROVIDER=openrouter with both credentials present: openrouter is tried
\* first with the custom EMB_MODEL, and failover has reached openai
C19_Witness ==
    /\ pc = "attempt"
    /\ env.EMB_PROVIDER = "openrouter"
    /\ env.EMB_MODEL # ""
    /\ BothKeys
    /\ provIdx = 2
    /\ callLog[1].name = "openrouter"
    /\ callLog[1].model = env.EMB_MODEL
    /\ Current = Provider("openai", DEFAULT_OPENAI_MODEL)

\* C20, in a state: the k-th embedBatch call for a file (k from 0) starts at
\* chunk k * BATCH_SIZE and receives the chunks up to, not including, chunk
\* min((k + 1) * BATCH_SIZE, n); the vectors accumulated are those of the
\* chunks before the batch, in chunk order.
BatchingState ==
    /\ pc \in {"attempt", "returned"} =>
           /\ fileCalls >= 1
           /\ bi = (fileCalls - 1) * BATCH_SIZE
           /\ bi < Len(pieces)
           /\ texts = SubSeq(pieces, bi + 1, Min(bi + BATCH_SIZE, Len(pieces)))
    /\ pc = "batch" => bi = fileCalls * BATCH_SIZE
    /\ pc \in {"batch", "attempt", "returned"} =>
           /\ Len(embeddings) = Min(bi, Len(pieces))
           /\ \A i \in DOMAIN embeddings : embeddings[i].of = pieces[i]

\* C20, in a step: a call starts only when the call before it has returned
\* and its vectors are accumulated, and the batch loop ends after exactly
\* ceil(n / BATCH_SIZE) calls with one vector per chunk.
BatchingStep ==
    /\ fileCalls' = fileCalls + 1 =>
           (pc = "batch" /\ ret = NoRet /\ pc' \in {"attempt", "failed"})
    /\ (pc = "batch" /\ pc' \in {"file", "writeIndex"}) =>
           /\ fileCalls = CeilDiv(Len(pieces), BATCH_SIZE)
           /\ Len(embeddings) = Len(pieces)

\* C20: batching: a file with n chunks that needs embedding gets exactly
\* ceil(n / BATCH_SIZE) embedBatch calls, one at a time, the k-th on the
\* chunks [k * BATCH_SIZE, min((k + 1) * BATCH_SIZE, n)), and the vectors
\* returned are accumulated in chunk order.
C20_Batching == [](BatchingState) /\ [][BatchingStep]_vars

\* the second call for a file of three chunks has returned: its batch is the
\* third chunk, and the vectors of the first two are accumulated
C20_Witness ==
    /\ pc = "returned"
    /\ fileCalls = 2
    /\ Len(pieces) = 3
    /\ texts = <<pieces[3]>>
    /\ Len(embeddings) = 2
    /\ Len(ret.value) = 1

\* ------------------------------------------------------------------------
\* C21: the backoff schedule of embedWithRetries
\* ------------------------------------------------------------------------

\* the base of the wait after the k-th failure, as the specification gives it
BaseDelay(k) == Min(1000 * 2^(k - 1), 20000)

\* the last step logged a failed call of the provider
FailureLogged ==
    /\ Len(callLog') = Len(callLog) + 1
    /\ callLog'[Len(callLog')].outcome # "ok"

\* inside embedWithRetries at attempt k: the delay of the next wait is
\* base_k, never above 20000; no wait was made before the first attempt,
\* and the wait made before attempt k > 1 was base_(k-1) plus a jitter
BackoffState ==
    pc = "attempt" =>
        /\ delay = BaseDelay(attempt)
        /\ delay <= 20000
        /\ attempt = 1 => waited = 0
        /\ attempt > 1 => (waited - BaseDelay(attempt - 1)) \in 0..249

\* a transient failure of attempt k < MAX_RETRIES is followed by one wait of
\* base_k + jitter and attempt k + 1 of the same provider; the failure of the
\* last attempt, and a fatal one, is followed by no wait; a provider and a
\* batch are entered at attempt 1 with the delay back at 1000
BackoffStep ==
    /\ (pc = "attempt" /\ FailureLogged /\ attempt < MAX_RETRIES
            /\ callLog'[Len(callLog')].outcome = "transient")
        => /\ (waited' - BaseDelay(attempt)) \in 0..249
           /\ attempt' = attempt + 1
           /\ provIdx' = provIdx
           /\ pc' = "attempt"
    /\ (pc = "attempt" /\ FailureLogged
            /\ (attempt = MAX_RETRIES \/ callLog'[Len(callLog')].outcome = "fatal"))
        => /\ waited' = 0
           /\ attempt' \in {0, 1}
    /\ (pc' = "attempt" /\ (pc = "batch" \/ provIdx' # provIdx))
        => /\ attempt' = 1
           /\ delay' = 1000
           /\ waited' = 0

\* C21: within one provider the wait before attempt k+1, after the k-th
\* transient failure with 1 <= k < MAX_RETRIES, is base_k + jitter with
\* base_k = min(1000 * 2^(k-1), 20000) ms and 0 <= jitter < 250 ms; the base
\* never exceeds 20000 ms, no wait follows the final failed attempt, and the
\* delay sequence restarts at 1000 ms for the next provider and the next batch
C21_BackoffSchedule == []BackoffState /\ [][BackoffStep]_vars

\* the second provider, in the second batch of the run, is at its seventh
\* attempt after a wait of the capped base plus the largest jitter
C21_Witness ==
    /\ pc = "attempt"
    /\ batchCalls = 2
    /\ provIdx = 2
    /\ attempt = 7
    /\ waited = 20249
    /\ MAX_RETRIES = 8

\* ------------------------------------------------------------------------
\* C22: cache entries are never pruned
\* ------------------------------------------------------------------------

\* the entries a run finds in a cache file
LoadedFiles(file) == LoadCache(file).files

\* the paths the for loop of the run goes over
Discovered == {pdfPaths[k] : k \in 1..Len(pdfPaths)}

\* a run in progress holds every entry it loaded, and those of paths that
\* were not discovered as it loaded them
NoPruningState ==
    pc \notin {"idle", "failed"} =>
        \A p \in DOMAIN LoadedFiles(startDisk.cache) :
            /\ p \in DOMAIN cache.files
            /\ p \notin Discovered => cache.files[p] = LoadedFiles(startDisk.cache)[p]

\* no step takes a path out of the cache file, and the save of a run writes
\* back, unchanged, every loaded entry of a path that was not discovered
NoPruningStep ==
    /\ DOMAIN LoadedFiles(cacheFile) \subseteq DOMAIN LoadedFiles(cacheFile')
    /\ (pc = "saveCache" /\ pc' = "done") =>
           \A p \in DOMAIN LoadedFiles(startDisk.cache) \ Discovered :
               LoadedFiles(cacheFile')[p] = LoadedFiles(startDisk.cache)[p]

\* C22: a successful run never removes a cache entry; every entry of the
\* loaded cache whose path is not among the discovered files is written back
\* unchanged, so the set of cached paths only grows over successive runs
C22_NoPruning == []NoPruningState /\ [][NoPruningStep]_vars

\* a second run has completed over a directory from which a PDF embedded by
\* the first run was removed, and the cache file still holds its entry
C22_Witness ==
    /\ pc = "done"
    /\ runs = 2
    /\ writes = <<"index", "cache">>
    /\ \E p \in Paths :
           /\ pdfDir[p] = Absent
           /\ p \notin Discovered
           /\ p \in DOMAIN LoadedFiles(cacheFile)
           /\ LoadedFiles(cacheFile)[p].count > 0
           /\ LoadedFiles(cacheFile)[p] = LoadedFiles(startDisk.cache)[p]

\* ------------------------------------------------------------------------
\* C23: two runs at once
\* ------------------------------------------------------------------------

\* the write of the index file stores the index of the process that writes,
\* and its save of the cache stores its own cache: the paths it loaded when
\* it started and the paths it discovered, whatever the file holds by then
LastWriterWins ==
    /\ (self' = self /\ pc = "writeIndex" /\ pc' = "saveCache") =>
           indexFile' = StoredFile(index)
    /\ (self' = self /\ pc = "saveCache" /\ pc' = "done") =>
           /\ cacheFile' = StoredFile(cache)
           /\ DOMAIN LoadedFiles(cacheFile') =
                  DOMAIN LoadedFiles(startDisk.cache) \cup Discovered

\* both processes have completed their runs, having loaded the same cache
\* file
BothDoneFromSameCache ==
    /\ pc = "done"
    /\ other.pc = "done"
    /\ writes = <<"index", "cache">>
    /\ other.writes = <<"index", "cache">>
    /\ startDisk.cache = other.startDisk.cache

\* C23: two runs of the script against the same cache and index paths are
\* kept apart by no lock and can race: both load the same cache, each writes
\* its own index and its own cache over whatever is there, and so the final
\* cache can lack an entry the other run computed, and the final index and
\* the final cache can come from different runs
C23_ConcurrentRunsRace == [][LastWriterWins]_vars

\* both runs are done after loading the same cache; the cache file is the
\* one of the run that saved last and lacks the entry the other run computed
\* for a PDF that is in the directory, and the index file is the other run's
C23_Witness ==
    /\ BothDoneFromSameCache
    /\ cacheFile = StoredFile(cache)
    /\ indexFile = StoredFile(other.index)
    /\ index # other.index
    /\ \E p \in DOMAIN other.cache.files :
           /\ pdfDir[p] # Absent
           /\ other.cache.files[p].count > 0
           /\ p \notin DOMAIN LoadedFiles(cacheFile)
           /\ Len(ChunksFrom(indexFile.data.chunks, p)) > 0

\* ------------------------------------------------------------------------
\* C24: the model named by the index and the model of its embeddings
\* ------------------------------------------------------------------------

\* the models that produced the embeddings of an index
ModelsOf(idx) == {idx.chunks[k].embedding.model : k \in 1..Len(idx.chunks)}

\* the run in progress has written the index file
IndexWritten == Len(writes) >= 1 /\ writes[1] = "index" /\ indexFile.state = "ok"

\* C24: every embedding stored in a written index was produced by the model
\* named in that index's model field, also after a failover to the secondary
\* provider and after reuse of cache entries of an earlier run
C24_ModelProvenance ==
    IndexWritten => ModelsOf(indexFile.data) \subseteq {indexFile.data.model}

\* the embeddings of an index written by a run that found no cache file and
\* whose only provider is the selected one come from the model the index names
ProvenanceOfSelectedAlone ==
    (IndexWritten /\ startDisk.cache = MissingFile
                  /\ TryOrder = <<Provider(EMB_PROVIDER, EMB_MODEL)>>)
        => ModelsOf(indexFile.data) \subseteq {indexFile.data.model}

=============================================================================
